---- MODULE Spec2Model ----
(***************************************************************************)
(* Weekly route summary service (src/app.py): the extraction pipeline      *)
(* rows_from_pdf and its helpers, the normalisers _two_dp and              *)
(* _int_or_zero, and the request handlers that stream the CSV under        *)
(* parse_lock.                                                             *)
(*                                                                         *)
(* Strings are sequences of one-character strings.  The document text is   *)
(* a sequence of segments: each segment is one place of the text where one *)
(* of the program's regular expressions matches, with the three groups it   *)
(* captures, or a stretch of text ("other") where none matches.            *)
(* re.search is the first segment of the wanted kind.                      *)
(***************************************************************************)
EXTENDS Integers, Sequences, FiniteSets, TLC

\* ------------------------------------------------------------------ bounds
\* Longest raw string handed to the normalisers on their own.
MaxRawLen == 3
\* Most segments in one document text.
MaxSegs == 3
\* Number of concurrent requests.
NumReq == 2

\* ----------------------------------------------------------------- strings
DigitChars == <<"0", "1", "2", "3", "4", "5", "6", "7", "8", "9">>
DigitSet == {DigitChars[i] : i \in 1..10}
IsDigit(c) == c \in DigitSet
DigitVal(c) == (CHOOSE i \in 1..10 : DigitChars[i] = c) - 1
AllDigits(s) == \A i \in 1..Len(s) : IsDigit(s[i])
IsSpace(c) == c = " "

\* s[a..b], empty when a > b
Slice(s, a, b) == [i \in 1..(b - a + 1) |-> s[a + i - 1]]

\* str.replace(pat, ""): every occurrence of pat is removed. Neither pattern
\* the program removes can overlap itself, so the occurrences are the places
\* where pat matches.
Remove(s, pat) ==
  LET starts == {i \in 1..(Len(s) - Len(pat) + 1) : Slice(s, i, i + Len(pat) - 1) = pat}
      gone == {i \in 1..Len(s) : \E j \in starts : j <= i /\ i < j + Len(pat)}
      kept == SelectSeq([i \in 1..Len(s) |-> i], LAMBDA i : i \notin gone)
  IN [k \in 1..Len(kept) |-> s[kept[k]]]

\* str.strip()
Strip(s) ==
  LET keep == {i \in 1..Len(s) : ~IsSpace(s[i])}
      lo == IF ~IsSpace(s[1]) THEN 1 ELSE CHOOSE i \in keep : \A j \in keep : i <= j
      hi == IF ~IsSpace(s[Len(s)]) THEN Len(s) ELSE CHOOSE i \in keep : \A j \in keep : j <= i
  IN IF s = <<>> \/ keep = {} THEN <<>> ELSE Slice(s, lo, hi)

\* the digits of a non-negative integer literal without its leading zeros
CanonDigits(ds) ==
  LET nz == {i \in 1..Len(ds) : ds[i] # "0"}
      lo == IF ds[1] # "0" THEN 1 ELSE CHOOSE i \in nz : \A j \in nz : i <= j
  IN IF ds = <<>> \/ nz = {} THEN <<"0">> ELSE Slice(ds, lo, Len(ds))

HasSign(s) == Len(s) >= 1 /\ s[1] \in {"-", "+"}
Unsigned(s) == IF HasSign(s) THEN Tail(s) ELSE s

\* int(str): what Python accepts over the characters of the model (no
\* underscores, no digits outside 0-9): an optional sign and one or more digits
IsIntLiteral(s) == Unsigned(s) # <<>> /\ AllDigits(Unsigned(s))

\* str(int(s)) for an integer literal s
IntStr(s) ==
  LET ds == CanonDigits(Unsigned(s))
  IN IF HasSign(s) /\ s[1] = "-" /\ ds # <<"0">> THEN <<"-">> \o ds ELSE ds

\* float(str): an optional sign, then digits with an optional point and
\* digits, or a point and digits (no exponent, inf or nan over these characters)
DotAt(s) == {i \in 1..Len(s) : s[i] = "."}
IntPart(s) ==
  LET u == Unsigned(s)
  IN IF DotAt(u) = {} THEN u ELSE Slice(u, 1, (CHOOSE i \in DotAt(u) : TRUE) - 1)
FracPart(s) ==
  LET u == Unsigned(s)
  IN IF DotAt(u) = {} THEN <<>> ELSE Slice(u, (CHOOSE i \in DotAt(u) : TRUE) + 1, Len(u))
IsFloatLiteral(s) ==
  LET u == Unsigned(s)
  IN /\ Cardinality(DotAt(u)) <= 1
     /\ AllDigits(IntPart(s)) /\ AllDigits(FracPart(s))
     /\ Len(IntPart(s)) + Len(FracPart(s)) >= 1

\* The least integer that float() turns into inf: 2^1024 - 2^970, 309 digits.
FloatOverflow ==
  <<
     "1", "7", "9", "7", "6", "9", "3", "1", "3", "4", "8", "6", "2", "3", "1", "5",
     "8", "0", "7", "9", "3", "7", "2", "8", "9", "7", "1", "4", "0", "5", "3", "0",
     "3", "4", "1", "5", "0", "7", "9", "9", "3", "4", "1", "3", "2", "7", "1", "0",
     "0", "3", "7", "8", "2", "6", "9", "3", "6", "1", "7", "3", "7", "7", "8", "9",
     "8", "0", "4", "4", "4", "9", "6", "8", "2", "9", "2", "7", "6", "4", "7", "5",
     "0", "9", "4", "6", "6", "4", "9", "0", "1", "7", "9", "7", "7", "5", "8", "7",
     "2", "0", "7", "0", "9", "6", "3", "3", "0", "2", "8", "6", "4", "1", "6", "6",
     "9", "2", "8", "8", "7", "9", "1", "0", "9", "4", "6", "5", "5", "5", "5", "4",
     "7", "8", "5", "1", "9", "4", "0", "4", "0", "2", "6", "3", "0", "6", "5", "7",
     "4", "8", "8", "6", "7", "1", "5", "0", "5", "8", "2", "0", "6", "8", "1", "9",
     "0", "8", "9", "0", "2", "0", "0", "0", "7", "0", "8", "3", "8", "3", "6", "7",
     "6", "2", "7", "3", "8", "5", "4", "8", "4", "5", "8", "1", "7", "7", "1", "1",
     "5", "3", "1", "7", "6", "4", "4", "7", "5", "7", "3", "0", "2", "7", "0", "0",
     "6", "9", "8", "5", "5", "5", "7", "1", "3", "6", "6", "9", "5", "9", "6", "2",
     "2", "8", "4", "2", "9", "1", "4", "8", "1", "9", "8", "6", "0", "8", "3", "4",
     "9", "3", "6", "4", "7", "5", "2", "9", "2", "7", "1", "9", "0", "7", "4", "1",
     "6", "8", "4", "4", "4", "3", "6", "5", "5", "1", "0", "7", "0", "4", "3", "4",
     "2", "7", "1", "1", "5", "5", "9", "6", "9", "9", "5", "0", "8", "0", "9", "3",
     "0", "4", "2", "8", "8", "0", "1", "7", "7", "9", "0", "4", "1", "7", "4", "4",
     "9", "7", "7", "9", "2" >>

\* a >= b for digit strings of one length
DigitsGeq(a, b) ==
  LET diff == {i \in 1..Len(a) : a[i] # b[i]}
      k == CHOOSE i \in diff : \A j \in diff : i <= j
  IN diff = {} \/ DigitVal(a[k]) > DigitVal(b[k])

\* float(s) is inf: the integer part reaches FloatOverflow
Overflows(s) ==
  LET ip == CanonDigits(IntPart(s))
  IN \/ Len(ip) > Len(FloatOverflow)
     \/ Len(ip) = Len(FloatOverflow) /\ DigitsGeq(ip, FloatOverflow)

\* a digit string plus one
Increment(ds) ==
  LET non9 == {i \in 1..Len(ds) : ds[i] # "9"}
      k == CHOOSE i \in non9 : \A j \in non9 : j <= i
  IN IF non9 = {} THEN <<"1">> \o [i \in 1..Len(ds) |-> "0"]
     ELSE [i \in 1..Len(ds) |->
             IF i < k THEN ds[i]
             ELSE IF i = k THEN DigitChars[DigitVal(ds[k]) + 2] ELSE "0"]

\* f"{float(s):.2f}" for a float literal s: inf when float() overflows, else
\* the value rounded to two fraction digits. Two things Python takes from the
\* nearest double are not computed: the digits beyond 15 significant ones, and
\* the direction of a tie (a third fraction digit 5 followed by zeros only),
\* taken downwards here; the payment pattern captures at most two fraction
\* digits, so neither decides a row.
FormatF2(s) ==
  LET sign == IF HasSign(s) /\ s[1] = "-" THEN <<"-">> ELSE <<>>
      fp == FracPart(s)
      fp2 == [i \in 1..2 |-> IF i <= Len(fp) THEN fp[i] ELSE "0"]
      rest == Slice(fp, 3, Len(fp))
      up == /\ rest # <<>>
            /\ DigitVal(rest[1]) >= 5
            /\ (DigitVal(rest[1]) > 5 \/ \E i \in 2..Len(rest) : rest[i] # "0")
      whole == CanonDigits(IntPart(s)) \o fp2
      all == IF up THEN Increment(whole) ELSE whole
  IN IF Overflows(s) THEN sign \o <<"i", "n", "f">>
     ELSE sign \o Slice(all, 1, Len(all) - 2) \o <<".">> \o Slice(all, Len(all) - 1, Len(all))

\* ------------------------------------------------------------- normalisers
Pound == <<"£">>
MisencodedPound == <<"¬", "£">>

\* _two_dp
two_dp(n) ==
  LET s == Strip(Remove(Remove(n, Pound), MisencodedPound))
  IN IF IsFloatLiteral(s) THEN FormatF2(s) ELSE <<>>

\* as int_or_zero, with the failure default of _two_dp
int_or_zero_empty(s) ==
  LET t == Strip(s) IN IF IsIntLiteral(t) THEN IntStr(t) ELSE <<>>

\* _int_or_zero
int_or_zero(s) ==
  LET t == Strip(s) IN IF IsIntLiteral(t) THEN IntStr(t) ELSE <<"0">>

\* _year4
year4(y) == IF y < 100 THEN 2000 + y ELSE y

\* ------------------------------------------------------------------- dates
\* datetime.date: a record [y, m, d]
IsLeap(y) == y % 4 = 0 /\ (y % 100 # 0 \/ y % 400 = 0)
DaysInMonth(y, m) ==
  IF m = 2 THEN (IF IsLeap(y) THEN 29 ELSE 28)
  ELSE IF m \in {4, 6, 9, 11} THEN 30 ELSE 31
DaysBeforeYear(y) == (y - 1) * 365 + (y - 1) \div 4 - (y - 1) \div 100 + (y - 1) \div 400
RECURSIVE DaysBeforeMonth(_, _)
DaysBeforeMonth(y, m) ==
  IF m = 1 THEN 0 ELSE DaysBeforeMonth(y, m - 1) + DaysInMonth(y, m - 1)

\* dt.date(y, m, d) raises ValueError unless this holds
ValidDate(y, m, d) ==
  /\ 1 <= y /\ y <= 9999
  /\ 1 <= m /\ m <= 12
  /\ 1 <= d /\ d <= DaysInMonth(y, m)

\* date.toordinal()
ToOrdinal(dte) == DaysBeforeYear(dte.y) + DaysBeforeMonth(dte.y, dte.m) + dte.d

\* date.fromordinal(n)
FromOrdinal(n) ==
  LET n0 == n - 1
      n400 == n0 \div 146097
      r400 == n0 % 146097
      n100 == r400 \div 36524
      r100 == r400 % 36524
      n4 == r100 \div 1461
      r4 == r100 % 1461
      n1 == r4 \div 365
      year == n400 * 400 + 1 + n100 * 100 + n4 * 4 + n1
  IN IF n1 = 4 \/ n100 = 4 THEN [y |-> year - 1, m |-> 12, d |-> 31]
     ELSE LET rest == n - DaysBeforeYear(year)
              month == CHOOSE k \in 1..12 :
                         /\ DaysBeforeMonth(year, k) < rest
                         /\ rest <= DaysBeforeMonth(year, k) + DaysInMonth(year, k)
          IN [y |-> year, m |-> month, d |-> rest - DaysBeforeMonth(year, month)]

\* date + timedelta(days=off)
AddDays(dte, off) == FromOrdinal(ToOrdinal(dte) + off)

\* str(n) for 0 <= n <= 9999, the range of a year
IntToStr(n) ==
  CanonDigits(<<DigitChars[((n \div 1000) % 10) + 1], DigitChars[((n \div 100) % 10) + 1],
                DigitChars[((n \div 10) % 10) + 1], DigitChars[(n % 10) + 1]>>)

RECURSIVE ParseInt(_)
\* int(ds) for a string of digits
ParseInt(ds) ==
  IF ds = <<>> THEN 0
  ELSE ParseInt(Slice(ds, 1, Len(ds) - 1)) * 10 + DigitVal(ds[Len(ds)])

Pad2(n) == IF n < 10 THEN <<"0">> \o IntToStr(n) ELSE IntToStr(n)

\* date.strftime("%Y-%m-%d"); %Y as the C library of the service's platform
\* prints it (no padding below the year 1000)
strftime(dte) == IntToStr(dte.y) \o <<"-">> \o Pad2(dte.m) \o <<"-">> \o Pad2(dte.d)

\* ---------------------------------------------------------------- the text
DAY_NAMES == <<"Monday", "Tuesday", "Wednesday", "Thursday", "Friday", "Saturday">>
DaySet == {DAY_NAMES[i] : i \in 1..6}
COLUMNS ==
  <<"Date", "Route No", "Total Stops", "Total Parcels", "Payment",
    "Internal Reference", "Contract Number", "Cost Centre Code">>
HeaderNames ==
  {"Route No", "Invoice No", "Internal Reference", "Contract Number", "Cost Centre Code"}

Seg(kind, key, g1, g2, g3) == [kind |-> kind, key |-> key, g |-> <<g1, g2, g3>>]

\* a payment of 310 digits
BigPay == <<"1">> \o [i \in 1..309 |-> "0"]

\* places where the 'Week ending Saturday' pattern matches: day, month, year
AnchorSegs ==
  { Seg("anchor", "", <<"1", "4">>, <<"0", "6">>, <<"2", "5">>),
    Seg("anchor", "", <<"3">>, <<"1">>, <<"2", "0", "2", "4">>),
    Seg("anchor", "", <<"3", "1">>, <<"0", "2">>, <<"2", "5">>) }
\* places where a header label pattern matches: the captured value
LabelSegs ==
  { Seg("label", "Route No", <<"R", "1", "2">>, <<>>, <<>>),
    Seg("label", "Route No", <<"R", "9">>, <<>>, <<>>),
    Seg("label", "Internal Reference", <<"I", "R", " ", "7", " ">>, <<>>, <<>>) }
\* places where a weekday block pattern matches: stops, parcels, payment
DaySegs ==
  { Seg("day", "Monday", <<"1", "0", "7">>, <<"2", "2", "6">>, <<"2", "8", "1", ".", "9", "3">>),
    Seg("day", "Monday", <<"0", "0", "7">>, <<"0">>, <<"5">>),
    Seg("day", "Saturday", <<"1">>, <<"1">>, BigPay) }
OtherSegs == {Seg("other", "", <<>>, <<>>, <<>>)}
SegmentPool == AnchorSegs \cup LabelSegs \cup DaySegs \cup OtherSegs

SeqsUpTo(S, n) == UNION {[1..k -> S] : k \in 0..n}
Texts == SeqsUpTo(SegmentPool, MaxSegs)

\* a dict keyed by the six weekdays, built entry by entry
DayDict(mon, tue, wed, thu, fri, sat) ==
  "Monday" :> mon @@ "Tuesday" :> tue @@ "Wednesday" :> wed
    @@ "Thursday" :> thu @@ "Friday" :> fri @@ "Saturday" :> sat

RECURSIVE SearchFrom(_, _, _, _)
\* re.search: the index of the first place at or after i where the pattern of
\* this kind and key matches, 0 when there is none
SearchFrom(text, kind, key, i) ==
  IF i > Len(text) THEN 0
  ELSE IF text[i].kind = kind /\ text[i].key = key THEN i
  ELSE SearchFrom(text, kind, key, i + 1)
Search(text, kind, key) == SearchFrom(text, kind, key, 1)

\* --------------------------------------------------------------- extraction
NoDate == [y |-> 0, m |-> 0, d |-> 0]
NotFound == "Week ending Saturday date not found"
BadDate == "day is out of range for month"

\* as parse_week_ending_saturday, with a default date instead of the error
parse_week_ending_saturday_lenient(text) ==
  LET k == Search(text, "anchor", "")
      d == IF k = 0 THEN 1 ELSE ParseInt(text[k].g[1])
      mth == IF k = 0 THEN 1 ELSE ParseInt(text[k].g[2])
      y == IF k = 0 THEN 0 ELSE ParseInt(text[k].g[3])
  IN IF ~ValidDate(year4(y), mth, d) THEN [ok |-> FALSE, err |-> BadDate, date |-> NoDate]
     ELSE [ok |-> TRUE, err |-> "", date |-> [y |-> year4(y), m |-> mth, d |-> d]]

\* the date, or the ValueError raised
parse_week_ending_saturday(text) ==
  LET k == Search(text, "anchor", "")
      d == ParseInt(text[k].g[1])
      mth == ParseInt(text[k].g[2])
      y == ParseInt(text[k].g[3])
  IN IF k = 0 THEN [ok |-> FALSE, err |-> NotFound, date |-> NoDate]
     ELSE IF ~ValidDate(year4(y), mth, d) THEN [ok |-> FALSE, err |-> BadDate, date |-> NoDate]
     ELSE [ok |-> TRUE, err |-> "", date |-> [y |-> year4(y), m |-> mth, d |-> d]]

offsets ==
  [day \in DaySet |->
     CASE day = "Monday" -> -5 [] day = "Tuesday" -> -4 [] day = "Wednesday" -> -3
       [] day = "Thursday" -> -2 [] day = "Friday" -> -1 [] day = "Saturday" -> 0]

\* as compute_day_dates, with Monday six days before the Saturday
compute_day_dates_off_by_one(saturday) ==
  DayDict(AddDays(saturday, -6), AddDays(saturday, offsets["Tuesday"]),
          AddDays(saturday, offsets["Wednesday"]), AddDays(saturday, offsets["Thursday"]),
          AddDays(saturday, offsets["Friday"]), AddDays(saturday, offsets["Saturday"]))

compute_day_dates(saturday) ==
  DayDict(AddDays(saturday, offsets["Monday"]), AddDays(saturday, offsets["Tuesday"]),
          AddDays(saturday, offsets["Wednesday"]), AddDays(saturday, offsets["Thursday"]),
          AddDays(saturday, offsets["Friday"]), AddDays(saturday, offsets["Saturday"]))

\* grab(label, pat): the stripped first capture, "" without a match
grab(text, label) ==
  LET k == Search(text, "label", label)
  IN IF k = 0 THEN <<>> ELSE Strip(text[k].g[1])

extract_header_values(text) ==
  "Route No" :> grab(text, "Route No")
    @@ "Invoice No" :> grab(text, "Invoice No")
    @@ "Internal Reference" :> grab(text, "Internal Reference")
    @@ "Contract Number" :> grab(text, "Contract Number")
    @@ "Cost Centre Code" :> grab(text, "Cost Centre Code")

\* the loop body of extract_days_block with a pattern that leaves the weekday
\* name out: a weekday without a block of its own takes the first block of any
\* weekday
day_block_any_day(text, day) ==
  LET own == Search(text, "day", day)
      blocks == {i \in 1..Len(text) : text[i].kind = "day"}
      k == IF own # 0 \/ blocks = {} THEN own
           ELSE CHOOSE i \in blocks : \A j \in blocks : i <= j
  IN IF k # 0
     THEN <<int_or_zero(text[k].g[1]), int_or_zero(text[k].g[2]), two_dp(text[k].g[3])>>
     ELSE <<<<"0">>, <<"0">>, two_dp(<<"0">>)>>

\* one turn of the loop of extract_days_block: the triple of one weekday
day_block(text, day) ==
  LET k == Search(text, "day", day)
  IN IF k # 0
     THEN <<int_or_zero(text[k].g[1]), int_or_zero(text[k].g[2]), two_dp(text[k].g[3])>>
     ELSE <<<<"0">>, <<"0">>, two_dp(<<"0">>)>>

\* for day in DAY_NAMES: out[day] = ...
extract_days_block(text) ==
  DayDict(day_block(text, "Monday"), day_block(text, "Tuesday"), day_block(text, "Wednesday"),
          day_block(text, "Thursday"), day_block(text, "Friday"), day_block(text, "Saturday"))

\* ------------------------------------------------- rows_from_pdf, the frame
VARIABLES
  gen,         \* one run of rows_from_pdf: its position, locals and what it yielded
  raw,         \* a raw string handed to a normaliser
  norm_pc,     \* "in", then which normaliser ran
  norm_out,    \* what the normaliser returned
  parse_lock,  \* threading.Lock(): TRUE while held
  pc,          \* per request: where its handler and response generator stand
  status,      \* per request: the status of the response the handler returned
  chunks,      \* per request: the chunks its response generator yielded
  frame,       \* per request: its run of rows_from_pdf
  waited       \* per request: parse_lock was held when its generator was started

vars == <<gen, raw, norm_pc, norm_out, parse_lock, pc, status, chunks, frame, waited>>
normVars == <<raw, norm_pc, norm_out>>
srvVars == <<parse_lock, pc, status, chunks, frame, waited>>

NoTriple == <<<<>>, <<>>, <<>>>>

\* the frame as the generator is created: the text read, nothing run yet
NewFrame(text) ==
  [pc |-> "hdr", text |-> text,
   hdr |-> [h \in HeaderNames |-> <<>>],
   saturday |-> NoDate,
   day_dates |-> DayDict(NoDate, NoDate, NoDate, NoDate, NoDate, NoDate),
   day_vals |-> DayDict(NoTriple, NoTriple, NoTriple, NoTriple, NoTriple, NoTriple),
   i |-> 1, rows |-> <<>>, error |-> ""]

\* hdr = extract_header_values(text)
StepHeader(p) == [p EXCEPT !.hdr = extract_header_values(p.text), !.pc = "anchor"]

\* saturday = parse_week_ending_saturday(text), or the ValueError leaves the frame
StepAnchor(p) ==
  LET r == parse_week_ending_saturday(p.text)
  IN IF r.ok THEN [p EXCEPT !.saturday = r.date, !.pc = "dates"]
     ELSE [p EXCEPT !.error = r.err, !.pc = "failed"]

\* day_dates = compute_day_dates(saturday)
StepDates(p) == [p EXCEPT !.day_dates = compute_day_dates(p.saturday), !.pc = "days"]

\* day_vals = extract_days_block(text)
StepDays(p) == [p EXCEPT !.day_vals = extract_days_block(p.text), !.pc = "loop"]

\* as Row, with the two reference fields taken from each other's header
RowSwappedHeaders(p, day) ==
  "Date" :> strftime(p.day_dates[day])
    @@ "Route No" :> p.hdr["Route No"]
    @@ "Total Stops" :> p.day_vals[day][1]
    @@ "Total Parcels" :> p.day_vals[day][2]
    @@ "Payment" :> p.day_vals[day][3]
    @@ "Internal Reference" :> p.hdr["Contract Number"]
    @@ "Contract Number" :> p.hdr["Internal Reference"]
    @@ "Cost Centre Code" :> p.hdr["Cost Centre Code"]

\* the dict yielded for one weekday
Row(p, day) ==
  "Date" :> strftime(p.day_dates[day])
    @@ "Route No" :> p.hdr["Route No"]
    @@ "Total Stops" :> p.day_vals[day][1]
    @@ "Total Parcels" :> p.day_vals[day][2]
    @@ "Payment" :> p.day_vals[day][3]
    @@ "Internal Reference" :> p.hdr["Internal Reference"]
    @@ "Contract Number" :> p.hdr["Contract Number"]
    @@ "Cost Centre Code" :> p.hdr["Cost Centre Code"]

\* for day in DAY_NAMES: yield {...}
StepYield(p) == [p EXCEPT !.rows = Append(p.rows, Row(p, DAY_NAMES[p.i])), !.i = p.i + 1]

\* the loop is over: the generator returns
StepReturn(p) == [p EXCEPT !.pc = "done"]

Step(p) ==
  CASE p.pc = "hdr" -> StepHeader(p)
    [] p.pc = "anchor" -> StepAnchor(p)
    [] p.pc = "dates" -> StepDates(p)
    [] p.pc = "days" -> StepDays(p)
    [] p.pc = "loop" /\ p.i <= Len(DAY_NAMES) -> StepYield(p)
    [] p.pc = "loop" /\ p.i > Len(DAY_NAMES) -> StepReturn(p)
    [] OTHER -> p

RECURSIVE RunAll(_)
\* list(rows_from_pdf(...)): the generator consumed to its end
RunAll(p) == IF p.pc \in {"done", "failed"} THEN p ELSE RunAll(Step(p))

\* ---------------------------------------- one document through the pipeline
ExtractHeader ==
  /\ gen.pc = "hdr"
  /\ gen' = StepHeader(gen)
  /\ UNCHANGED <<normVars, srvVars>>

ParseAnchor ==
  /\ gen.pc = "anchor"
  /\ gen' = StepAnchor(gen)
  /\ UNCHANGED <<normVars, srvVars>>

ComputeDates ==
  /\ gen.pc = "dates"
  /\ gen' = StepDates(gen)
  /\ UNCHANGED <<normVars, srvVars>>

ExtractDays ==
  /\ gen.pc = "days"
  /\ gen' = StepDays(gen)
  /\ UNCHANGED <<normVars, srvVars>>

YieldRow ==
  /\ gen.pc = "loop" /\ gen.i <= Len(DAY_NAMES)
  /\ gen' = StepYield(gen)
  /\ UNCHANGED <<normVars, srvVars>>

Return ==
  /\ gen.pc = "loop" /\ gen.i > Len(DAY_NAMES)
  /\ gen' = StepReturn(gen)
  /\ UNCHANGED <<normVars, srvVars>>

Reqs == 1..NumReq
IdleNorm == raw = <<>> /\ norm_pc = "off" /\ norm_out = <<>>
IdleSrv ==
  /\ parse_lock = FALSE
  /\ pc = [r \in Reqs |-> "off"]
  /\ status = [r \in Reqs |-> 0]
  /\ chunks = [r \in Reqs |-> <<>>]
  /\ frame = [r \in Reqs |-> [text |-> <<>>, yielded |-> 0, pc |-> "new", error |-> ""]]
  /\ waited = [r \in Reqs |-> FALSE]
IdleGen == gen = NewFrame(<<>>)

Init == gen \in {NewFrame(t) : t \in Texts} /\ IdleNorm /\ IdleSrv
Next == ExtractHeader \/ ParseAnchor \/ ComputeDates \/ ExtractDays \/ YieldRow \/ Return
Spec == Init /\ [][Next]_vars

\* ------------------------------------------------ the normalisers on their own
RawAlphabet == {"£", "¬", " ", "-", ".", "0", "7", "x"}
RawInputs == SeqsUpTo(RawAlphabet, MaxRawLen)

ApplyIntOrZero ==
  /\ norm_pc = "in"
  /\ norm_out' = int_or_zero(raw)
  /\ norm_pc' = "int"
  /\ UNCHANGED <<raw, gen, srvVars>>

ApplyTwoDp ==
  /\ norm_pc = "in"
  /\ norm_out' = two_dp(raw)
  /\ norm_pc' = "amount"
  /\ UNCHANGED <<raw, gen, srvVars>>

InitNorm == raw \in RawInputs /\ norm_pc = "in" /\ norm_out = <<>> /\ IdleGen /\ IdleSrv
NextNorm == ApplyIntOrZero \/ ApplyTwoDp
SpecNorm == InitNorm /\ [][NextNorm]_vars

\* ------------------------------------------------------- the request handlers
MAX_BYTES == 2000000

GoodText ==
  << Seg("anchor", "", <<"1", "4">>, <<"0", "6">>, <<"2", "5">>),
     Seg("day", "Monday", <<"1", "0", "7">>, <<"2", "2", "6">>, <<"2", "8", "1", ".", "9", "3">>) >>
NoAnchorText ==
  << Seg("label", "Route No", <<"R", "1", "2">>, <<>>, <<>>),
     Seg("day", "Monday", <<"1", "0", "7">>, <<"2", "2", "6">>, <<"2", "8", "1", ".", "9", "3">>) >>
BadDateText == << Seg("anchor", "", <<"3", "1">>, <<"0", "2">>, <<"2", "5">>) >>
SrvTexts == {GoodText, NoAnchorText, BadDateText}

\* list(rows_from_pdf(...)) for the documents of the requests
GoodRun == RunAll(NewFrame(GoodText))
NoAnchorRun == RunAll(NewFrame(NoAnchorText))
BadDateRun == RunAll(NewFrame(BadDateText))
RunOf(text) ==
  CASE text = GoodText -> GoodRun
    [] text = NoAnchorText -> NoAnchorRun
    [] text = BadDateText -> BadDateRun

\* the line csv.DictWriter writes for a row: its fields in the order of COLUMNS
CsvLine(row) == [k \in 1..Len(COLUMNS) |-> row[COLUMNS[k]]]

\* The run of rows_from_pdf inside gen(): the text, the rows yielded so far,
\* and "new" (generator object made, body not entered), "running", "done"
\* (returned), "failed" (raised) or "closed".
NewRun(text) == [text |-> text, yielded |-> 0, pc |-> "new", error |-> ""]

\* next() on the run f of the document whose rows_from_pdf goes as whole: its
\* next row as the generator yields it, or its return, or the error raised
\* before its first row
NextOf(f, whole) ==
  IF f.yielded < Len(whole.rows) THEN [f EXCEPT !.yielded = f.yielded + 1, !.pc = "running"]
  ELSE [f EXCEPT !.pc = whole.pc, !.error = whole.error]

\* stream_csv(pdf_bytes, name): a StreamingResponse over gen(), which has not run
stream_csv(r, text) ==
  /\ pc' = [pc EXCEPT ![r] = "response"]
  /\ status' = [status EXCEPT ![r] = 200]
  /\ frame' = [frame EXCEPT ![r] = NewRun(text)]
  /\ UNCHANGED <<parse_lock, chunks, waited>>

\* return JSONResponse(status_code=code, ...)
JsonError(r, code) ==
  /\ pc' = [pc EXCEPT ![r] = "rejected"]
  /\ status' = [status EXCEPT ![r] = code]
  /\ UNCHANGED <<parse_lock, chunks, frame, waited>>

\* POST /process/url. cl is the content-length header, 0 when there is none.
process_url(r) ==
  /\ pc[r] = "new"
  /\ \E token_ok \in BOOLEAN, fetched \in BOOLEAN, cl \in {0, MAX_BYTES, MAX_BYTES + 1},
        text \in SrvTexts :
       IF ~token_ok THEN JsonError(r, 401)
       ELSE IF ~fetched THEN JsonError(r, 400)
       ELSE IF cl # 0 /\ cl > MAX_BYTES THEN JsonError(r, 413)
       ELSE stream_csv(r, text)
  /\ UNCHANGED <<gen, normVars>>

\* POST /process/file. size is len(pdf_bytes).
process_file(r) ==
  /\ pc[r] = "new"
  /\ \E token_ok \in BOOLEAN, read_ok \in BOOLEAN, size \in {MAX_BYTES, MAX_BYTES + 1},
        text \in SrvTexts :
       IF ~token_ok THEN JsonError(r, 401)
       ELSE IF ~read_ok THEN JsonError(r, 400)
       ELSE IF size > MAX_BYTES THEN JsonError(r, 413)
       ELSE stream_csv(r, text)
  /\ UNCHANGED <<gen, normVars>>

\* the server starts to iterate gen(): the generator reaches "with parse_lock"
GenStart(r) ==
  /\ pc[r] = "response"
  /\ pc' = [pc EXCEPT ![r] = "acquiring"]
  /\ waited' = [waited EXCEPT ![r] = parse_lock]
  /\ UNCHANGED <<parse_lock, status, chunks, frame, gen, normVars>>

\* as Acquire, without waiting for the lock to be free
AcquireNoWait(r) ==
  /\ pc[r] = "acquiring"
  /\ parse_lock' = TRUE
  /\ chunks' = [chunks EXCEPT ![r] = <<COLUMNS>>]
  /\ pc' = [pc EXCEPT ![r] = "suspended"]
  /\ UNCHANGED <<status, frame, waited, gen, normVars>>

\* parse_lock.__enter__(), w.writeheader() and the first yield
Acquire(r) ==
  /\ pc[r] = "acquiring"
  /\ ~parse_lock
  /\ parse_lock' = TRUE
  /\ chunks' = [chunks EXCEPT ![r] = <<COLUMNS>>]
  /\ pc' = [pc EXCEPT ![r] = "suspended"]
  /\ UNCHANGED <<status, frame, waited, gen, normVars>>

\* next() on gen() suspended at a yield: rows_from_pdf runs to its next row,
\* which is written and yielded; or it returns or raises, and the with
\* statement releases parse_lock on the way out
Resume(r) ==
  /\ pc[r] = "suspended"
  /\ \E whole \in {RunOf(frame[r].text)} :
       /\ frame' = [frame EXCEPT ![r] = NextOf(frame[r], whole)]
       /\ IF frame[r].yielded < Len(whole.rows)
          THEN /\ chunks' = [chunks EXCEPT ![r] =
                               Append(@, CsvLine(whole.rows[frame[r].yielded + 1]))]
               /\ UNCHANGED <<pc, parse_lock>>
          ELSE /\ pc' = [pc EXCEPT ![r] = whole.pc]
               /\ parse_lock' = FALSE
               /\ UNCHANGED chunks
  /\ UNCHANGED <<status, waited, gen, normVars>>

\* as Close, with the lock left held
CloseKeepsLock(r) ==
  /\ pc[r] \in {"response", "suspended"}
  /\ pc' = [pc EXCEPT ![r] = "closed"]
  /\ frame' = [frame EXCEPT ![r].pc = "closed"]
  /\ UNCHANGED <<parse_lock, status, chunks, waited, gen, normVars>>

\* the consumer closes gen() before it is exhausted: GeneratorExit is raised at
\* the yield where it is suspended and the with statement releases parse_lock;
\* a generator that never started holds nothing
Close(r) ==
  /\ pc[r] \in {"response", "suspended"}
  /\ parse_lock' = IF pc[r] = "suspended" THEN FALSE ELSE parse_lock
  /\ pc' = [pc EXCEPT ![r] = "closed"]
  /\ frame' = [frame EXCEPT ![r].pc = "closed"]
  /\ UNCHANGED <<status, chunks, waited, gen, normVars>>

InitSrv ==
  /\ parse_lock = FALSE
  /\ pc = [r \in Reqs |-> "new"]
  /\ status = [r \in Reqs |-> 0]
  /\ chunks = [r \in Reqs |-> <<>>]
  /\ frame = [r \in Reqs |-> NewRun(<<>>)]
  /\ waited = [r \in Reqs |-> FALSE]
  /\ IdleGen /\ IdleNorm
NextSrv ==
  \E r \in Reqs :
    \/ process_url(r)
    \/ process_file(r)
    \/ GenStart(r)
    \/ Acquire(r)
    \/ Resume(r)
    \/ Close(r)
SpecSrv == InitSrv /\ [][NextSrv]_vars

\* The holder of parse_lock is drained or closed by its consumer, and a thread
\* blocked in acquire is scheduled once the lock is free.
Drain(r) == Resume(r) \/ (pc[r] = "suspended" /\ Close(r))
SpecSrvFair ==
  /\ InitSrv /\ [][NextSrv]_vars
  /\ \A r \in Reqs : WF_vars(Drain(r)) /\ WF_vars(Acquire(r))

\* =================================================================== claims
\* Helpers of the properties, written apart from the operators they judge.
FirstMatch(text, kind, key) ==
  LET S == {i \in 1..Len(text) : text[i].kind = kind /\ text[i].key = key}
  IN IF S = {} THEN 0 ELSE CHOOSE i \in S : \A j \in S : i <= j

\* the calendar day before dte
PrevDay(dte) ==
  IF dte.d > 1 THEN [dte EXCEPT !.d = dte.d - 1]
  ELSE IF dte.m > 1 THEN [y |-> dte.y, m |-> dte.m - 1, d |-> DaysInMonth(dte.y, dte.m - 1)]
  ELSE [y |-> dte.y - 1, m |-> 12, d |-> 31]
RECURSIVE DaysBack(_, _)
DaysBack(dte, k) == IF k = 0 THEN dte ELSE DaysBack(PrevDay(dte), k - 1)

\* the date the first anchor match of the text denotes
AnchorDate(text) ==
  LET g == text[FirstMatch(text, "anchor", "")].g
  IN [y |-> year4(ParseInt(g[3])), m |-> ParseInt(g[2]), d |-> ParseInt(g[1])]
AnchorIsDate(text) ==
  /\ FirstMatch(text, "anchor", "") # 0
  /\ ValidDate(AnchorDate(text).y, AnchorDate(text).m, AnchorDate(text).d)

IsNatString(s) == s # <<>> /\ AllDigits(s)
IsTwoDecimals(s) ==
  /\ Len(s) >= 4
  /\ s[Len(s) - 2] = "."
  /\ \A i \in 1..Len(s) : i # Len(s) - 2 => IsDigit(s[i])
ZeroTriple == <<<<"0">>, <<"0">>, <<"0", ".", "0", "0">>>>

\* C1: when the anchor pattern matches and denotes a real date A, the rows come
\* out in order with the dates A-5, A-4, ..., A, each one calendar day after
\* the one before, and the finished run has yielded exactly six.
C1_SixRowsMondayToSaturday ==
  AnchorIsDate(gen.text) =>
    /\ gen.pc # "failed"
    /\ Len(gen.rows) <= 6
    /\ \A i \in 1..Len(gen.rows) :
         gen.rows[i]["Date"] = strftime(DaysBack(AnchorDate(gen.text), 6 - i))
    /\ \A i \in 2..Len(gen.rows) :
         gen.rows[i]["Date"] # gen.rows[i - 1]["Date"]
    /\ gen.pc = "done" => Len(gen.rows) = 6

\* C1 witness: a finished run whose week crosses a year boundary
C1_Witness ==
  /\ gen.pc = "done"
  /\ AnchorIsDate(gen.text)
  /\ AnchorDate(gen.text) = [y |-> 2024, m |-> 1, d |-> 3]
  /\ gen.rows[1]["Date"] = <<"2", "0", "2", "3", "-", "1", "2", "-", "2", "9">>
  /\ gen.rows[6]["Date"] = <<"2", "0", "2", "4", "-", "0", "1", "-", "0", "3">>

\* C2: when the anchor pattern matches nowhere, the run fails with the
\* anchor-not-found error before any row is yielded, whatever labels and
\* weekday blocks the text holds.
C2_NoAnchorNoRows ==
  FirstMatch(gen.text, "anchor", "") = 0 =>
    /\ gen.rows = <<>>
    /\ gen.pc \in {"hdr", "anchor", "failed"}
    /\ gen.pc = "failed" => gen.error = NotFound

\* C2 witness: a failed run over a text with a label and a weekday block
C2_Witness ==
  /\ gen.pc = "failed"
  /\ gen.error = NotFound
  /\ gen.rows = <<>>
  /\ \E i, j \in 1..Len(gen.text) : gen.text[i].kind = "label" /\ gen.text[j].kind = "day"

RemoveAt(t, i) == [k \in 1..(Len(t) - 1) |-> IF k < i THEN t[k] ELSE t[k + 1]]
InsertAfter(t, j, s) ==
  [k \in 1..(Len(t) + 1) |-> IF k <= j THEN t[k] ELSE IF k = j + 1 THEN s ELSE t[k - 1]]
\* the texts that differ from t in one block of a weekday other than day:
\* one removed, one changed, one added
OtherDayVariants(t, day) ==
  LET others == {i \in 1..Len(t) : t[i].kind = "day" /\ t[i].key # day}
      blocks == {s \in DaySegs : s.key # day}
  IN {RemoveAt(t, i) : i \in others}
       \cup {[t EXCEPT ![i] = s] : i \in others, s \in blocks}
       \cup {InsertAfter(t, j, s) : j \in 0..Len(t), s \in blocks}

\* C3: extract_days_block does not fail and gives every weekday a triple: the
\* zero triple for a weekday without a block, and a triple that no change to
\* another weekday's block alters.
C3_DaysIndependent ==
  (gen.pc = "loop" /\ gen.i = 1) =>
    /\ gen.error = ""
    /\ DOMAIN gen.day_vals = DaySet
    /\ \A day \in DaySet :
         /\ FirstMatch(gen.text, "day", day) = 0 => gen.day_vals[day] = ZeroTriple
         /\ FirstMatch(gen.text, "day", day) # 0 => gen.day_vals[day] # NoTriple
         /\ \A t \in OtherDayVariants(gen.text, day) :
              day_block(t, day) = gen.day_vals[day]

\* C3 witness: Monday and Saturday have a block, Tuesday has none
C3_Witness ==
  /\ gen.pc = "loop" /\ gen.i = 1
  /\ FirstMatch(gen.text, "day", "Saturday") # 0
  /\ gen.day_vals["Monday"] = <<<<"1", "0", "7">>, <<"2", "2", "6">>, <<"2", "8", "1", ".", "9", "3">>>>
  /\ gen.day_vals["Tuesday"] = ZeroTriple

\* C4: in every row, Total Stops and Total Parcels are strings of digits and
\* Payment is a decimal string with exactly two fraction digits.
C4_NumericFieldsValid ==
  \A i \in 1..Len(gen.rows) :
    /\ IsNatString(gen.rows[i]["Total Stops"])
    /\ IsNatString(gen.rows[i]["Total Parcels"])
    /\ IsTwoDecimals(gen.rows[i]["Payment"])

RowHeaders == {"Route No", "Internal Reference", "Contract Number", "Cost Centre Code"}
ExpectedHeader(text, h) ==
  IF FirstMatch(text, "label", h) = 0 THEN <<>>
  ELSE Strip(text[FirstMatch(text, "label", h)].g[1])
WithoutLabel(text, h) == SelectSeq(text, LAMBDA s : ~(s.kind = "label" /\ s.key = h))

\* C5: the four header fields of every row are those of the one header
\* extraction: the stripped first match of the label, "" without a match; and
\* a text without the label gives the same rows but for that field.
C5_HeadersShared ==
  /\ \A i \in 1..Len(gen.rows) : \A h \in RowHeaders :
       /\ gen.rows[i][h] = ExpectedHeader(gen.text, h)
       /\ gen.rows[i][h] = gen.rows[1][h]
       /\ gen.rows[i][h] = gen.hdr[h]
  /\ gen.pc = "done" =>
       \A h \in {x \in RowHeaders : FirstMatch(gen.text, "label", x) # 0} :
         LET q == RunAll(NewFrame(WithoutLabel(gen.text, h)))
         IN /\ q.pc = "done"
            /\ Len(q.rows) = Len(gen.rows)
            /\ \A i \in 1..Len(q.rows) : \A k \in 1..Len(COLUMNS) :
                 q.rows[i][COLUMNS[k]] =
                   IF COLUMNS[k] = h THEN <<>> ELSE gen.rows[i][COLUMNS[k]]

\* C5 witness: a finished run without a Route No label, with an Internal Reference
C5_Witness ==
  /\ gen.pc = "done"
  /\ FirstMatch(gen.text, "label", "Route No") = 0
  /\ \A i \in 1..6 :
       /\ gen.rows[i]["Route No"] = <<>>
       /\ gen.rows[i]["Internal Reference"] = <<"I", "R", " ", "7">>

\* the integer literals over the digits of RawAlphabet, up to the longest raw
DigitStrings == SeqsUpTo({"0", "7"}, MaxRawLen) \ {<<>>}
IntLiterals == DigitStrings \cup {<<"-">> \o ds : ds \in DigitStrings}
IsCanonicalInt(s) ==
  /\ IsNatString(Unsigned(s))
  /\ Len(Unsigned(s)) > 1 => Unsigned(s)[1] # "0"
  /\ HasSign(s) => s[1] = "-" /\ Unsigned(s) # <<"0">>

\* C6 as stated: _int_or_zero returns a string of digits, "0" for every raw
\* that does not parse as an integer.
C6_NeverNegative ==
  norm_pc = "int" =>
    /\ IsNatString(norm_out)
    /\ Strip(raw) \notin IntLiterals => norm_out = <<"0">>

\* C6 as amended: _int_or_zero returns a decimal integer in canonical form,
\* negative only for a raw that is a negative integer literal, a string of
\* digits for a raw of digits, and "0" for every raw that does not parse.
C6_CanonicalInteger ==
  norm_pc = "int" =>
    /\ IsCanonicalInt(norm_out)
    /\ HasSign(norm_out) => HasSign(Strip(raw)) /\ Strip(raw) \in IntLiterals
    /\ Strip(raw) \in DigitStrings => IsNatString(norm_out)
    /\ Strip(raw) \notin IntLiterals => norm_out = <<"0">>

\* C6 witness: a negative literal comes back negative
C6_Witness ==
  /\ norm_pc = "int"
  /\ raw = <<" ", "-", "7">>
  /\ norm_out = <<"-", "7">>

InCS(r) == pc[r] = "suspended"
PipelineRunning(r) == frame[r].pc = "running"

\* C7: at most one response generator is inside the parse_lock critical
\* section, the lock is held while one is, and a run of rows_from_pdf that has
\* started and not ended belongs to the generator inside it.
C7_OnePipelineAtATime ==
  /\ Cardinality({r \in Reqs : InCS(r)}) <= 1
  /\ \A r \in Reqs : InCS(r) => parse_lock
  /\ \A r \in Reqs : PipelineRunning(r) => InCS(r)

\* C7 witness: one request is between two rows while another waits for the lock
C7_Witness ==
  \E r, s \in Reqs :
    /\ r # s
    /\ InCS(r) /\ frame[r].pc = "running" /\ Len(chunks[r]) = 3
    /\ pc[s] = "acquiring"

\* C8: parse_lock is free whenever no generator is inside the critical
\* section (it is released when the generator ends with all rows, with an
\* error, or closed), and a request waiting for it eventually acquires it.
C8_GateReleased ==
  /\ []((\A r \in Reqs : ~InCS(r)) => ~parse_lock)
  /\ \A r \in Reqs : (pc[r] = "acquiring") ~> (pc[r] = "suspended")

\* C8 witness: a request that waited holds the lock after the holder was
\* closed mid-stream
C8_Witness ==
  \E r, s \in Reqs :
    /\ r # s
    /\ pc[r] = "closed" /\ chunks[r] # <<>>
    /\ waited[s] /\ InCS(s)

\* C9: a request whose document lacks the anchor date ends as an error
\* response: no success status, and no CSV content emitted.
C9_AnchorErrorReported ==
  \A r \in Reqs :
    (pc[r] = "failed" /\ frame[r].error = NotFound) =>
      /\ status[r] # 200
      /\ chunks[r] = <<>>

\* the decimal numerals over the digits of RawAlphabet, up to the longest raw
Numerals ==
  {s \in SeqsUpTo({"0", "7", "."}, MaxRawLen) :
     /\ s # <<>> /\ IsDigit(s[1]) /\ IsDigit(s[Len(s)])
     /\ Cardinality({i \in 1..Len(s) : s[i] = "."}) <= 1}

\* C10: for a raw made of a decimal numeral, optionally after a pound sign or
\* the mis-encoded pound sign, optionally within whitespace, _two_dp returns
\* the numeral with exactly two fraction digits.
C10_CurrencyStripped ==
  norm_pc = "amount" =>
    \A sym \in {<<>>, Pound, MisencodedPound} : \A num \in Numerals :
      Strip(raw) = sym \o num =>
        /\ IsTwoDecimals(norm_out)
        /\ norm_out = two_dp(num)

====
